---- MODULE Spec2Model ----
(***************************************************************************)
(* The Login component of src/component/login/Login.tsx as a state         *)
(* machine: React state (formValues, errors, loader), the "auth-token"     *)
(* cookie, the calls made on the router, the alerts raised, the pending    *)
(* addDoc / signInWithPopup promises, and one action per event handler or  *)
(* promise continuation.                                                   *)
(*                                                                         *)
(* Rendering.  A state setter that changes the state re-renders the        *)
(* component before the next event is delivered, and passive effects of    *)
(* that render run before the next handler.  The effect of lines 32-37     *)
(* lists `cookies` among its dependencies and `cookies` is a new object on *)
(* every render (line 30), so the effect runs after every render.  Each    *)
(* action below therefore ends with the render its setters cause and with  *)
(* the run of the effect (sessionGuard).  Updates made in one continuation *)
(* are batched into one render.                                            *)
(*                                                                         *)
(* Strings are sequences of one-character strings, so that trim(), the     *)
(* regular expression and .length are computed, not assumed.               *)
(***************************************************************************)
EXTENDS Integers, Sequences, FiniteSets, TLC

VARIABLES mounted, formValues, errors, loader, cookie, pending, users,
          popups, flowNavs, guardNavs, alerts, lastEvent

vars == <<mounted, formValues, errors, loader, cookie, pending, users,
          popups, flowNavs, guardNavs, alerts, lastEvent>>

(* ------------------------------ bounds --------------------------------- *)
MaxNav == 3
MaxAlerts == 2
MaxDocs == 2
MaxPopups == 1

(* ------------------------- program constants --------------------------- *)
MobileDigits == 10
MinPasswordLength == 6

FieldIds == {"name", "mobileNumber", "password"}

NoCookie == "undefined"
DummyToken == "dummy-auth-token"
RefreshToken == "provider-refresh-token"
ExistingToken == "earlier-session-token"

NameRequired == "Name is required"
MobileRequired == "Mobile number is required"
MobileTenDigits == "Mobile number must be 10 digits"
PasswordRequired == "Password is required"
PasswordTooShort == "Password must be at least 6 characters"

(* ------------------------------ strings -------------------------------- *)
Digit == {"0", "1", "2", "3", "4", "5", "6", "7", "8", "9"}
WhiteSpace == {" ", "\t"}

RECURSIVE trimStart(_)
trimStart(s) ==
    IF s = <<>> THEN s
    ELSE IF Head(s) \in WhiteSpace THEN trimStart(Tail(s)) ELSE s

RECURSIVE trimEnd(_)
trimEnd(s) ==
    IF s = <<>> THEN s
    ELSE IF s[Len(s)] \in WhiteSpace THEN trimEnd(SubSeq(s, 1, Len(s) - 1)) ELSE s

trim(s) == trimEnd(trimStart(s))

\* !str : the empty string is the only falsy string
Falsy(s) == s = <<>>

\* the body \d{n}$ of the regular expression, matched from the left
RECURSIVE matchDigits(_, _)
matchDigits(s, n) ==
    IF n = 0 THEN s = <<>>
    ELSE /\ s # <<>>
         /\ Head(s) \in Digit
         /\ matchDigits(Tail(s), n - 1)

matchDigitsUnanchored(s) ==
    /\ Len(s) >= MobileDigits
    /\ \A i \in 1..MobileDigits : s[i] \in Digit

\* /^\d{10}$/.test(s)
testTenDigits(s) == matchDigits(s, MobileDigits)

(* ------------------------------ values --------------------------------- *)
Ten == <<"5", "5", "5", "1", "2", "3", "4", "5", "6", "7">>

EmptyForm == [name |-> <<>>, mobileNumber |-> <<>>, password |-> <<>>]

NoErrors == [k \in {} |-> ""]

Put(obj, k, v) == [x \in (DOMAIN obj) \cup {k} |-> IF x = k THEN v ELSE obj[x]]

\* what the user can type in each field of the form
InputValues ==
    [name |-> {<<>>, <<"A", "l">>},
     mobileNumber |-> {<<>>, <<"1", "2", "3">>, Ten},
     password |-> {<<>>, <<"1", "2", "3", "4", "5">>,
                   <<"1", "2", "3", "4", "5", "6">>}]

\* the values the validator is exercised on
ValidatorValues ==
    [name |-> {<<>>, <<" ">>, <<" ", "\t">>, <<"A", "l">>, <<" ", "A", " ">>},
     mobileNumber |-> {<<>>, <<" ">>, <<"1", "2", "3">>, Ten,
                       <<"5", "5", "5", "1", "2", "3", "4", "5", "a">>,
                       <<"5", "5", "5", "1", "2", "3", "4", "5", "6", "a">>,
                       Ten \o <<"8">>, <<" ">> \o Ten, Ten \o <<" ">>,
                       <<"a">> \o Ten},
     password |-> {<<>>, <<" ", " ">>, <<"1", "2", "3", "4", "5">>,
                   <<"1", "2", "3", "4", "5", "6">>,
                   <<" ", " ", " ", " ", " ", " ">>,
                   <<" ", " ", "a", " ", " ">>,
                   <<" ", " ", "a", " ", " ", " ">>,
                   <<"1", "2", "3", "4", "5", "6", "7">>}]

(* ----------------------------- validateForm ---------------------------- *)
validateForm(fv) ==
    LET e0 == NoErrors
        e1 == IF Falsy(trim(fv.name)) THEN Put(e0, "name", NameRequired) ELSE e0
        e2 == IF Falsy(trim(fv.mobileNumber))
              THEN Put(e1, "mobileNumber", MobileRequired)
              ELSE IF ~testTenDigits(fv.mobileNumber)
                   THEN Put(e1, "mobileNumber", MobileTenDigits)
                   ELSE e1
        e3 == IF Falsy(trim(fv.password))
              THEN Put(e2, "password", PasswordRequired)
              ELSE IF Len(fv.password) < MinPasswordLength
                   THEN Put(e2, "password", PasswordTooShort)
                   ELSE e2
    IN e3

\* Object.keys(formErrors).length > 0
HasErrorsNever(formErrors) == FALSE

HasErrors(formErrors) == Cardinality(DOMAIN formErrors) > 0

(* ---------------------------- session guard ---------------------------- *)
\* the effect of lines 32-37, run after a render: the number of guard
\* navigations after it has read cookie value c
sessionGuard(c, n) == IF c # NoCookie THEN n + 1 ELSE n

\* the navigations the effect adds when a render happens with cookie c
GuardCost(c) == IF c # NoCookie THEN 1 ELSE 0

RoomFor(n) == guardNavs + flowNavs + n <= MaxNav

\* the submit button is rendered with disabled={loader}
SubmitEnabledAlways == TRUE

SubmitEnabled == loader = FALSE

Remove(s, i) == SubSeq(s, 1, i - 1) \o SubSeq(s, i + 1, Len(s))

(* ------------------------------- Init ---------------------------------- *)
Init ==
    /\ mounted = FALSE
    /\ formValues = EmptyForm
    /\ errors = NoErrors
    /\ loader = FALSE
    /\ cookie \in {NoCookie, ExistingToken}
    /\ pending = <<>>
    /\ users = <<>>
    /\ popups = 0
    /\ flowNavs = 0
    /\ guardNavs = 0
    /\ alerts = 0
    /\ lastEvent = "none"

(* ------------------------------ actions -------------------------------- *)
\* first render of the component and the first run of the effect
Mount ==
    /\ ~mounted
    /\ mounted' = TRUE
    /\ guardNavs' = sessionGuard(cookie, guardNavs)
    /\ lastEvent' = "mount"
    /\ UNCHANGED <<formValues, errors, loader, cookie, pending, users,
                   popups, flowNavs, alerts>>

handleChange(id, value) ==
    /\ mounted
    /\ value # formValues[id]
    /\ RoomFor(GuardCost(cookie))
    /\ formValues' = [formValues EXCEPT ![id] = value]
    /\ guardNavs' = sessionGuard(cookie, guardNavs)
    /\ lastEvent' = "change"
    /\ UNCHANGED <<mounted, errors, loader, cookie, pending, users, popups,
                   flowNavs, alerts>>

\* handleSubmit up to its await
handleSubmit ==
    /\ mounted
    /\ SubmitEnabled
    /\ LET formErrors == validateForm(formValues) IN
       IF HasErrors(formErrors)
       THEN /\ RoomFor(GuardCost(cookie))
            /\ errors' = formErrors
            /\ guardNavs' = sessionGuard(cookie, guardNavs)
            /\ lastEvent' = "submitInvalid"
            /\ UNCHANGED <<loader, pending>>
       ELSE /\ Len(pending) + Len(users) < MaxDocs
            /\ RoomFor(GuardCost(cookie))
            /\ loader' = TRUE
            /\ pending' = Append(pending, formValues)
            /\ guardNavs' = IF loader = FALSE
                            THEN sessionGuard(cookie, guardNavs)
                            ELSE guardNavs
            /\ lastEvent' = "submitValid"
            /\ UNCHANGED errors
    /\ UNCHANGED <<mounted, formValues, cookie, users, popups, flowNavs, alerts>>

\* the continuation of handleSubmit when addDoc resolves, and the finally
addDocResolvedNoCookie(i) ==
    /\ i \in 1..Len(pending)
    /\ RoomFor(2)
    /\ users' = Append(users, pending[i])
    /\ pending' = Remove(pending, i)
    /\ formValues' = EmptyForm
    /\ flowNavs' = flowNavs + 1
    /\ loader' = FALSE
    /\ guardNavs' = sessionGuard(cookie, guardNavs)
    /\ lastEvent' = "writeOk"
    /\ UNCHANGED <<mounted, errors, cookie, popups, alerts>>

addDocResolved(i) ==
    /\ i \in 1..Len(pending)
    /\ RoomFor(2)
    /\ users' = Append(users, pending[i])
    /\ pending' = Remove(pending, i)
    /\ formValues' = EmptyForm
    /\ cookie' = DummyToken
    /\ flowNavs' = flowNavs + 1
    /\ loader' = FALSE
    /\ guardNavs' = sessionGuard(cookie', guardNavs)
    /\ lastEvent' = "writeOk"
    /\ UNCHANGED <<mounted, errors, popups, alerts>>

\* the continuation of handleSubmit when addDoc rejects: catch, then finally
addDocRejectedNoFinally(i) ==
    /\ i \in 1..Len(pending)
    /\ alerts < MaxAlerts
    /\ pending' = Remove(pending, i)
    /\ alerts' = alerts + 1
    /\ lastEvent' = "writeFail"
    /\ UNCHANGED <<mounted, formValues, errors, loader, cookie, users, popups,
                   flowNavs, guardNavs>>

addDocRejectedResets(i) ==
    /\ i \in 1..Len(pending)
    /\ alerts < MaxAlerts
    /\ RoomFor(GuardCost(cookie))
    /\ pending' = Remove(pending, i)
    /\ alerts' = alerts + 1
    /\ formValues' = EmptyForm
    /\ loader' = FALSE
    /\ guardNavs' = sessionGuard(cookie, guardNavs)
    /\ lastEvent' = "writeFail"
    /\ UNCHANGED <<mounted, errors, cookie, users, popups, flowNavs>>

addDocRejected(i) ==
    /\ i \in 1..Len(pending)
    /\ alerts < MaxAlerts
    /\ RoomFor(GuardCost(cookie))
    /\ pending' = Remove(pending, i)
    /\ alerts' = alerts + 1
    /\ loader' = FALSE
    /\ guardNavs' = IF loader = TRUE
                    THEN sessionGuard(cookie, guardNavs)
                    ELSE guardNavs
    /\ lastEvent' = "writeFail"
    /\ UNCHANGED <<mounted, formValues, errors, cookie, users, popups, flowNavs>>

\* signInGoogle up to its await
signInGoogle ==
    /\ mounted
    /\ popups < MaxPopups
    /\ popups' = popups + 1
    /\ lastEvent' = "googleStart"
    /\ UNCHANGED <<mounted, formValues, errors, loader, cookie, pending, users,
                   flowNavs, guardNavs, alerts>>

\* the continuation of signInGoogle when signInWithPopup resolves
signInResolved(token) ==
    /\ popups > 0
    /\ RoomFor(1)
    /\ popups' = popups - 1
    /\ cookie' = token
    /\ flowNavs' = flowNavs + 1
    /\ lastEvent' = "googleOk"
    /\ UNCHANGED <<mounted, formValues, errors, loader, pending, users,
                   guardNavs, alerts>>

\* the continuation of signInGoogle when signInWithPopup rejects
signInRejectedAlerts ==
    /\ popups > 0
    /\ alerts < MaxAlerts
    /\ popups' = popups - 1
    /\ alerts' = alerts + 1
    /\ lastEvent' = "googleFail"
    /\ UNCHANGED <<mounted, formValues, errors, loader, cookie, pending, users,
                   flowNavs, guardNavs>>

signInRejected ==
    /\ popups > 0
    /\ popups' = popups - 1
    /\ lastEvent' = "googleFail"
    /\ UNCHANGED <<mounted, formValues, errors, loader, cookie, pending, users,
                   flowNavs, guardNavs, alerts>>

Next ==
    \/ Mount
    \/ \E id \in FieldIds : \E value \in InputValues[id] : handleChange(id, value)
    \/ handleSubmit
    \/ \E i \in 1..MaxDocs : addDocResolved(i)
    \/ \E i \in 1..MaxDocs : addDocRejected(i)
    \/ signInGoogle
    \/ signInResolved(RefreshToken)
    \/ signInRejected

Spec == Init /\ [][Next]_vars

(* ------------------- the validator on its own -------------------------- *)
\* validateForm applied to every combination of ValidatorValues
InitValidator ==
    /\ mounted = TRUE
    /\ formValues \in [name : ValidatorValues.name,
                       mobileNumber : ValidatorValues.mobileNumber,
                       password : ValidatorValues.password]
    /\ errors = NoErrors
    /\ loader = FALSE
    /\ cookie = NoCookie
    /\ pending = <<>>
    /\ users = <<>>
    /\ popups = 0
    /\ flowNavs = 0
    /\ guardNavs = 0
    /\ alerts = 0
    /\ lastEvent = "none"

Validate ==
    /\ lastEvent = "none"
    /\ errors' = validateForm(formValues)
    /\ lastEvent' = "validate"
    /\ UNCHANGED <<mounted, formValues, loader, cookie, pending, users, popups,
                   flowNavs, guardNavs, alerts>>

NextValidator == Validate

SpecValidator == InitValidator /\ [][NextValidator]_vars

(* ------------------------------ claims --------------------------------- *)
Valid(fv) == validateForm(fv) = NoErrors

ThreeRequired ==
    [name |-> NameRequired, mobileNumber |-> MobileRequired,
     password |-> PasswordRequired]

SubmitStep == lastEvent' \in {"submitInvalid", "submitValid"}

\* C1: a submit attempt whose FormValues fail validation issues no remote
\* write, leaves the loading flag false, writes no cookie, makes no
\* navigation of its own, and stores exactly the validator's output (the
\* three "required" messages when every field is empty).
C1_InvalidSubmitStops ==
    [][(SubmitStep /\ ~Valid(formValues)) =>
          /\ pending' = pending
          /\ users' = users
          /\ loader = FALSE /\ loader' = FALSE
          /\ cookie' = cookie
          /\ flowNavs' = flowNavs
          /\ errors' = validateForm(formValues)
          /\ (formValues = EmptyForm => errors' = ThreeRequired)]_vars

C1_Witness ==
    /\ lastEvent = "submitInvalid"
    /\ formValues = EmptyForm
    /\ errors = ThreeRequired
    /\ loader = FALSE
    /\ pending = <<>>

\* C2: a successful write that settles on a form that had no cookie and no
\* navigation so far leaves FormValues empty, the placeholder cookie set,
\* and exactly one navigation invoked, the session guard's included.
C2_NavigatedExactlyOnce ==
    [][(lastEvent' = "writeOk" /\ cookie = NoCookie /\ flowNavs + guardNavs = 0) =>
          /\ formValues' = EmptyForm
          /\ cookie' = DummyToken
          /\ flowNavs' + guardNavs' = 1]_vars

\* C3: a write that fails leaves FormValues, the cookie and the stored
\* errors alone, makes no navigation of its own (and none at all when no
\* cookie exists), raises exactly one alert and leaves the loading flag false.
C3_FailedWriteKeepsForm ==
    [][(lastEvent' = "writeFail") =>
          /\ formValues' = formValues
          /\ cookie' = cookie
          /\ users' = users
          /\ flowNavs' = flowNavs
          /\ (cookie = NoCookie => guardNavs' = guardNavs)
          /\ alerts' = alerts + 1
          /\ loader' = FALSE]_vars

C3_Witness ==
    /\ lastEvent = "writeFail"
    /\ Valid(formValues)
    /\ alerts = 1
    /\ loader = FALSE
    /\ cookie = NoCookie
    /\ flowNavs + guardNavs = 0

AllDocsValid ==
    /\ \A i \in 1..Len(pending) : Valid(pending[i])
    /\ \A i \in 1..Len(users) : Valid(users[i])

\* C4: a remote write is issued only for FormValues the validator has just
\* accepted, and carries exactly those values; the placeholder cookie is
\* written only by a step in which a write succeeded; a navigation of the
\* submit or sign-in flow never happens while no cookie exists.
C4_Ordering ==
    /\ [](/\ AllDocsValid
          /\ (cookie = DummyToken => Len(users) > 0)
          /\ (flowNavs > 0 => cookie # NoCookie))
    /\ [][/\ (Len(pending') > Len(pending) =>
                 /\ Valid(formValues)
                 /\ pending' = Append(pending, formValues))
          /\ ((cookie' = DummyToken /\ cookie # DummyToken) =>
                 Len(users') = Len(users) + 1)
          /\ (flowNavs' > flowNavs => cookie' # NoCookie)]_vars

C4_Witness ==
    /\ lastEvent = "writeOk"
    /\ Len(users) = 1
    /\ cookie = DummyToken
    /\ flowNavs = 1

\* C5: every settling of a remote write, success or rejection, leaves the
\* loading flag false, so the flag is false whenever no write is pending.
C5_LoaderReset ==
    /\ [](pending = <<>> => loader = FALSE)
    /\ [][Len(pending') < Len(pending) => loader' = FALSE]_vars

C5_Witness ==
    /\ lastEvent = "writeFail"
    /\ pending = <<>>
    /\ loader = FALSE
    /\ SubmitEnabled

Blank(s) == \A i \in 1..Len(s) : s[i] \in WhiteSpace

IsTenDigits(s) == Len(s) = 10 /\ \A i \in 1..Len(s) : s[i] \in Digit

\* C6: the validator's result holds exactly the keys whose rule failed:
\* name iff blank; mobileNumber "required" if blank, else "10 digits" iff
\* the untrimmed value is not exactly ten digits; password "required" if
\* blank, else "at least 6" iff shorter than 6; empty iff all are valid.
C6_ValidatorRules ==
    lastEvent = "validate" =>
       /\ DOMAIN errors \subseteq FieldIds
       /\ ("name" \in DOMAIN errors <=> Blank(formValues.name))
       /\ ("name" \in DOMAIN errors => errors.name = NameRequired)
       /\ (Blank(formValues.mobileNumber) =>
              "mobileNumber" \in DOMAIN errors /\ errors.mobileNumber = MobileRequired)
       /\ (~Blank(formValues.mobileNumber) =>
              IF IsTenDigits(formValues.mobileNumber)
              THEN "mobileNumber" \notin DOMAIN errors
              ELSE "mobileNumber" \in DOMAIN errors
                   /\ errors.mobileNumber = MobileTenDigits)
       /\ (Blank(formValues.password) =>
              "password" \in DOMAIN errors /\ errors.password = PasswordRequired)
       /\ (~Blank(formValues.password) =>
              IF Len(formValues.password) < 6
              THEN "password" \in DOMAIN errors
                   /\ errors.password = PasswordTooShort
              ELSE "password" \notin DOMAIN errors)
       /\ (errors = NoErrors <=>
              /\ ~Blank(formValues.name)
              /\ IsTenDigits(formValues.mobileNumber)
              /\ ~Blank(formValues.password) /\ Len(formValues.password) >= 6)

C6_Witness ==
    /\ lastEvent = "validate"
    /\ formValues.name = <<" ", "\t">>
    /\ formValues.mobileNumber = Ten \o <<"8">>
    /\ Len(formValues.password) = 5 /\ ~Blank(formValues.password)
    /\ errors = [name |-> NameRequired, mobileNumber |-> MobileTenDigits,
                 password |-> PasswordTooShort]

\* C7: the session guard acts once, at mount: after the mount no render
\* makes the guard navigate again.
C7_GuardOnlyAtMount ==
    [][mounted => guardNavs' = guardNavs]_vars

\* C8: the federated sign-in never touches FormValues, Errors, the loading
\* flag or the remote writes and raises no alert; on success it stores the
\* provider's refresh token as the cookie and navigates; on failure it
\* writes no cookie and does not navigate.
C8_FederatedPath ==
    [][(lastEvent' \in {"googleStart", "googleOk", "googleFail"}) =>
          /\ formValues' = formValues
          /\ errors' = errors
          /\ loader' = loader
          /\ pending' = pending
          /\ users' = users
          /\ alerts' = alerts
          /\ guardNavs' = guardNavs
          /\ IF lastEvent' = "googleOk"
             THEN cookie' = RefreshToken /\ flowNavs' = flowNavs + 1
             ELSE cookie' = cookie /\ flowNavs' = flowNavs]_vars

C8_Witness ==
    /\ lastEvent = "googleOk"
    /\ ~Valid(formValues)
    /\ cookie = RefreshToken
    /\ flowNavs = 1
    /\ alerts = 0

\* C9: at most one remote write is in flight, and the loading flag is true
\* for as long as it is.
C9_SingleInFlight ==
    /\ Len(pending) <= 1
    /\ (pending # <<>> => loader = TRUE)

C9_Witness ==
    /\ Len(pending) = 1
    /\ loader = TRUE
    /\ lastEvent = "change"
    /\ Valid(formValues)

\* C10: after every submit attempt, valid or invalid, the stored Errors are
\* the validator's output for the FormValues submitted.
C10_ErrorsRecomputed ==
    [][SubmitStep => errors' = validateForm(formValues)]_vars

====
